---- MODULE Spec2Model ----
(***************************************************************************)
(* Model of the message-to-execution pipeline of open-rust-claw:           *)
(*   bot.rs        parse_commands, extract_json_array, format_results,     *)
(*                 truncate, handle_message                                *)
(*   executor.rs   Executor::run_command, Executor::run_commands           *)
(*   llm_client.rs LlmClient::chat                                         *)
(*   config.rs     the defaults of the configuration                       *)
(*                                                                         *)
(* A string is a sequence of pieces; every piece is a real, non-empty      *)
(* string, and the string it stands for is the concatenation of its        *)
(* pieces.  The pieces of model-response text are lexemes that the         *)
(* searches of extract_json_array (the fence marker, '[', ']', '\n') match  *)
(* whole or not at all, so an offset in pieces orders exactly as the byte  *)
(* offset.  The backtick cannot be written in a string of this language:   *)
(* the piece "<fence>" stands for the three-backtick fence marker and      *)
(* "<backtick>" for one backtick.                                          *)
(***************************************************************************)
EXTENDS Integers, Sequences, FiniteSets, TLC

\* ------------------------------------------------------------------------
\* Bounds of the model
\* ------------------------------------------------------------------------
MaxTextLen == 3
MaxProse == 2
MaxCmds == 3
MaxPlan == 2
MaxPad == 2

\* ------------------------------------------------------------------------
\* Pieces of text
\* ------------------------------------------------------------------------
FENCE == "<fence>"
BACKTICK == "<backtick>"
LB == "["
RB == "]"
NL == "\n"
SP == " "
CM == ","
PX == "x"
OA == "{\"command\":\"a\"}"
OB == "{\"command\":\"b\",\"description\":\"d\"}"
ON == "{\"description\":\"d\"}"

Alphabet == {FENCE, LB, RB, NL, SP, CM, PX, OA, OB, ON}
ProseAlphabet == {FENCE, LB, RB, NL, PX}
Whitespace == {SP, NL}

\* Option and Result values
None == <<>>
Some(x) == <<x>>
IsSome(o) == Len(o) = 1
Unwrap(o) == o[1]

SeqsUpTo(S, n) == UNION {[1..k -> S] : k \in 0..n}

\* ------------------------------------------------------------------------
\* str primitives used by bot.rs (offsets are 0-based, ranges half-open)
\* ------------------------------------------------------------------------
\* str::find: offset of the first occurrence
find(text, pat) ==
    IF \E i \in 1..Len(text) : text[i] = pat
    THEN Some((CHOOSE i \in 1..Len(text) :
                 /\ text[i] = pat
                 /\ \A j \in 1..(i - 1) : text[j] # pat) - 1)
    ELSE None

\* str::rfind: offset of the last occurrence
rfind(text, pat) ==
    IF \E i \in 1..Len(text) : text[i] = pat
    THEN Some((CHOOSE i \in 1..Len(text) :
                 /\ text[i] = pat
                 /\ \A j \in (i + 1)..Len(text) : text[j] # pat) - 1)
    ELSE None

\* &text[from..to]
Slice(text, from, to) == SubSeq(text, from + 1, to)

RECURSIVE trim_start(_)
trim_start(s) ==
    IF s # <<>> /\ Head(s) \in Whitespace THEN trim_start(Tail(s)) ELSE s

RECURSIVE trim_end(_)
trim_end(s) ==
    IF s # <<>> /\ s[Len(s)] \in Whitespace
    THEN trim_end(SubSeq(s, 1, Len(s) - 1))
    ELSE s

\* str::trim
trim(s) == trim_end(trim_start(s))

\* ------------------------------------------------------------------------
\* TaskCommand and its decoding (serde_json::from_str::<Vec<TaskCommand>>)
\* ------------------------------------------------------------------------
\* #[derive(Deserialize)] TaskCommand: command required, description
\* defaults to the empty string.  A piece that is not an object with a
\* command decodes to nothing.
TaskCommand(piece) ==
    IF piece = OA THEN Some([command |-> <<"a">>, description |-> <<>>])
    ELSE IF piece = OB THEN Some([command |-> <<"b">>, description |-> <<"d">>])
    ELSE None

\* The lexemes of a candidate, JSON whitespace between them dropped.
Lexemes(s) == SelectSeq(s, LAMBDA c : c \notin Whitespace)

\* from_str: Ok(list) when the candidate is one JSON array of command
\* objects and nothing else, Err otherwise.
from_str(cand) ==
    LET t == Lexemes(cand)
        n == Len(t)
    IN  IF n < 2 \/ t[1] # LB \/ t[n] # RB
        THEN [ok |-> FALSE, cmds |-> <<>>]
        ELSE LET inner == SubSeq(t, 2, n - 1)
                 m == Len(inner)
             IN  IF m = 0
                 THEN [ok |-> TRUE, cmds |-> <<>>]
                 ELSE IF /\ m % 2 = 1
                         /\ \A k \in 1..m :
                              IF k % 2 = 1 THEN IsSome(TaskCommand(inner[k]))
                                           ELSE inner[k] = CM
                      THEN [ok |-> TRUE,
                            cmds |-> [k \in 1..((m + 1) \div 2) |->
                                        Unwrap(TaskCommand(inner[2 * k - 1]))]]
                      ELSE [ok |-> FALSE, cmds |-> <<>>]

\* ------------------------------------------------------------------------
\* bot.rs: extract_json_array, parse_commands
\* ------------------------------------------------------------------------
\* &text[start..=end]: panics when the range is reversed (start > end + 1).
SliceInclusive(text, start, end) ==
    IF start > end + 1
    THEN [panic |-> TRUE, val |-> <<>>]
    ELSE [panic |-> FALSE, val |-> Slice(text, start, end + 1)]

\* Tier 2 and 3 of extract_json_array (bot.rs 30-35)
bracket_scan(text) ==
    LET start == find(text, LB)
        end == rfind(text, RB)
    IN  IF IsSome(start) /\ IsSome(end)
        THEN SliceInclusive(text, Unwrap(start), Unwrap(end))
        ELSE [panic |-> FALSE, val |-> trim(text)]

extract_json_array(text) ==
    LET start == find(text, FENCE)
    IN  IF IsSome(start)
        THEN LET after_backticks == Slice(text, Unwrap(start) + 1, Len(text))
                 nl == find(after_backticks, NL)
                 content_start == IF IsSome(nl) THEN Unwrap(nl) + 1 ELSE 0
                 content == Slice(after_backticks, content_start,
                                  Len(after_backticks))
                 end == find(content, FENCE)
             IN  IF IsSome(end)
                 THEN [panic |-> FALSE,
                       val |-> trim(Slice(content, 0, Unwrap(end)))]
                 ELSE bracket_scan(text)
        ELSE bracket_scan(text)

parse_commands(llm_response) ==
    LET json_text == extract_json_array(llm_response)
    IN  IF json_text.panic
        THEN [panic |-> TRUE, cmds |-> <<>>]
        ELSE LET r == from_str(json_text.val)
             IN  [panic |-> FALSE, cmds |-> IF r.ok THEN r.cmds ELSE <<>>]

\* ------------------------------------------------------------------------
\* Fixed texts of the source.  The source writes them in Chinese and with
\* emoji; each is one piece, named here in ASCII.
\* ------------------------------------------------------------------------
ANALYZING == "<analyzing>"
LLM_FAILED == "<LLM call failed>: "
NOTHING == "<no command needed>"
PLAN_HEADER == "<plan>:\n"
ARROW == " <arrow> "
REPORT_HEADER == "<report>\n\n"
UNKNOWN_DESC == "<unknown>"
ICON_OK == "<ok>"
ICON_FAIL == "<fail>"
CMD_LABEL == "  <command>: "
OUT_LABEL == "  <output>:\n"
ERR_LABEL == "  <error>:\n"
TRUNC_MARK == "...(<truncated>)"
TIMEOUT_MSG == "<command timed out> ("
SECS_MSG == " <seconds>): "
EXEC_FAILED_MSG == "<command execution failed>: "
REQ_FAILED_MSG == "<LLM API request failed>"
API_ERROR_MSG == "<LLM API error> "
DECODE_FAILED_MSG == "<LLM response decoding failed>"

\* ------------------------------------------------------------------------
\* config.rs
\* ------------------------------------------------------------------------
\* default_timeout
default_timeout == 120

\* ------------------------------------------------------------------------
\* llm_client.rs: LlmClient::chat
\* ------------------------------------------------------------------------
\* An HTTP exchange with the completions endpoint:
\*   sent     the request got a response (send() returned Ok)
\*   status   the HTTP status
\*   detail   the body text of a non-2xx response
\*   json     the body of a 2xx response is a JSON document
\*   content  what /choices/0/message/content is in that document:
\*            "absent" (no such path), "nonstring", or "string" with text
Exchange(sent, status, detail, json, kind, text) ==
    [sent |-> sent, status |-> status, detail |-> detail, json |-> json,
     content |-> [kind |-> kind, text |-> text]]

\* StatusCode::is_success
is_success(status) == status >= 200 /\ status <= 299

\* result.pointer("/choices/0/message/content").and_then(as_str).unwrap_or("")
content_or_default(content) ==
    IF content.kind = "string" THEN content.text ELSE <<>>

\* StatusCode::canonical_reason, for the statuses of the model
canonical_reason(status) ==
    IF status = 200 THEN Some("OK")
    ELSE IF status = 301 THEN Some("Moved Permanently")
    ELSE IF status = 404 THEN Some("Not Found")
    ELSE IF status = 500 THEN Some("Internal Server Error")
    ELSE None

\* Display of StatusCode ("{status}" at llm_client.rs 73): the code, a
\* space and the reason phrase
status_display(status) ==
    <<ToString(status), " ",
      IF IsSome(canonical_reason(status))
      THEN Unwrap(canonical_reason(status))
      ELSE "<unknown status code>">>

chat(x) ==
    IF ~x.sent
    THEN [ok |-> FALSE, val |-> <<REQ_FAILED_MSG>>]
    ELSE IF ~is_success(x.status)
    THEN [ok |-> FALSE,
          val |-> <<API_ERROR_MSG>> \o status_display(x.status)
                  \o <<": ">> \o x.detail]
    ELSE IF ~x.json
    THEN [ok |-> FALSE, val |-> <<DECODE_FAILED_MSG>>]
    ELSE [ok |-> TRUE, val |-> content_or_default(x.content)]

\* ------------------------------------------------------------------------
\* executor.rs: Executor::run_command
\* ------------------------------------------------------------------------
\* What the operating system answers for `sh -c cmd`:
\*   "waited"   the process ended within the timeout with a wait status
\*              (exit code in bits 8..15, terminating signal in bits 0..6)
\*   "timeout"  the timeout elapsed first
\*   "io"       the process could not be spawned or its output not read
ExitedWith(code) == code * 256
KilledBy(sig) == sig

\* ExitStatus::success
status_success(raw) == raw = 0

\* A variant of status_code that forgets the terminating signal
status_code_ignores_signal(raw) == Some((raw \div 256) % 256)

\* ExitStatus::code
status_code(raw) ==
    IF raw % 128 = 0 THEN Some((raw \div 256) % 256) ELSE None

run_command(cmd, o, timeout_secs) ==
    IF o.kind = "timeout"
    THEN [ok |-> FALSE,
          err |-> <<TIMEOUT_MSG, ToString(timeout_secs), SECS_MSG>> \o cmd]
    ELSE IF o.kind = "io"
    THEN [ok |-> FALSE, err |-> <<EXEC_FAILED_MSG>> \o cmd]
    ELSE [ok |-> TRUE,
          val |-> [command |-> cmd,
                   success |-> status_success(o.raw),
                   exit_code |-> status_code(o.raw),
                   stdout |-> o.stdout,
                   stderr |-> o.stderr]]

\* A variant of SynthesizedResult that reports an exit code
SynthesizedResult_with_code(task, e) ==
    [command |-> task.command,
     success |-> FALSE,
     exit_code |-> Some(1),
     stdout |-> <<>>,
     stderr |-> e]

\* The CommandResult that run_commands builds from a Runner error
SynthesizedResult(task, e) ==
    [command |-> task.command,
     success |-> FALSE,
     exit_code |-> None,
     stdout |-> <<>>,
     stderr |-> e]

\* ------------------------------------------------------------------------
\* bot.rs: truncate, format_results, the plan
\* ------------------------------------------------------------------------
\* Bytes of the UTF-8 encoding of a one-character piece
Utf8Len(c) ==
    IF c = "U+4E2D" THEN 3 ELSE IF c = "U+00E9" THEN 2 ELSE 1

\* The bytes of the first k characters of s: one for each character, and
\* one more for each byte a character has beyond its first
PrefixBytes(s, k) ==
    k + Cardinality({i \in 1..k : Utf8Len(s[i]) >= 2})
      + Cardinality({i \in 1..k : Utf8Len(s[i]) >= 3})

\* str::len
len(s) == PrefixBytes(s, Len(s))

\* The number of characters that end exactly at byte offset n, or -1 when
\* offset n is inside a character (not a char boundary).  k characters
\* take between k and 3k bytes.
CharsAt(s, n) ==
    LET ks == {k \in ((n + 2) \div 3)..n :
                 k <= Len(s) /\ PrefixBytes(s, k) = n}
    IN  IF ks = {} THEN -1 ELSE CHOOSE k \in ks : TRUE

truncate(s, max) ==
    IF len(s) <= max
    THEN [panic |-> FALSE, val |-> s]
    ELSE LET k == CharsAt(s, max)
         IN  IF k = -1
             THEN [panic |-> TRUE, val |-> <<>>]
             ELSE [panic |-> FALSE, val |-> SubSeq(s, 1, k) \o <<TRUNC_MARK>>]

\* One entry of the report (the body of the loop of format_results)
format_result(commands, results, i) ==
    LET result == results[i]
        desc == IF i <= Len(commands) THEN commands[i].description
                ELSE <<UNKNOWN_DESC>>
        status == IF result.success THEN ICON_OK ELSE ICON_FAIL
        stdout == truncate(result.stdout, 500)
        stderr == truncate(result.stderr, 300)
        out_panic == result.stdout # <<>> /\ stdout.panic
        err_panic == result.stderr # <<>> /\ stderr.panic
    IN  [panic |-> out_panic \/ err_panic,
         val |-> <<status, " ">> \o desc \o <<"\n", CMD_LABEL>>
                 \o result.command \o <<"\n">>
                 \o (IF result.stdout # <<>> /\ ~out_panic
                     THEN <<OUT_LABEL>> \o stdout.val \o <<"\n">> ELSE <<>>)
                 \o (IF result.stderr # <<>> /\ ~err_panic
                     THEN <<ERR_LABEL>> \o stderr.val \o <<"\n">> ELSE <<>>)
                 \o <<"\n">>]

\* The entries of results i.., one after the other (the loop of
\* format_results); each entry is referred to once
RECURSIVE format_entries(_, _, _)
format_entries(commands, results, i) ==
    IF i > Len(results) THEN <<>>
    ELSE format_result(commands, results, i).val
         \o format_entries(commands, results, i + 1)

\* The loop panics when the truncation of one of its entries does
format_results(commands, results) ==
    IF \E i \in 1..Len(results) : format_result(commands, results, i).panic
    THEN [panic |-> TRUE, val |-> <<>>]
    ELSE [panic |-> FALSE,
          val |-> <<REPORT_HEADER>> \o format_entries(commands, results, 1)]

\* "{i}. {description} -> `{command}`", joined by newlines (bot.rs 138-143)
RECURSIVE plan_lines(_, _)
plan_lines(commands, i) ==
    IF i > Len(commands) THEN <<>>
    ELSE <<ToString(i), ". ">> \o commands[i].description
         \o <<ARROW, BACKTICK>> \o commands[i].command \o <<BACKTICK>>
         \o (IF i < Len(commands) THEN <<"\n">> ELSE <<>>)
         \o plan_lines(commands, i + 1)

plan_text(commands) == <<PLAN_HEADER>> \o plan_lines(commands, 1)

\* ------------------------------------------------------------------------
\* Inputs
\* ------------------------------------------------------------------------
ChatIds == {1, 2}
AllowLists == {<<>>, <<1>>}
UserTexts == {None, Some(<<"h", "i">>)}

\* "[" objects separated by "," "]"
RECURSIVE JoinObjects(_)
JoinObjects(objs) ==
    IF objs = <<>> THEN <<>>
    ELSE IF Len(objs) = 1 THEN <<objs[1]>>
    ELSE <<objs[1], CM>> \o JoinObjects(Tail(objs))

RenderArray(objs) == <<LB>> \o JoinObjects(objs) \o <<RB>>

ObjectLists == SeqsUpTo({OA, OB}, MaxCmds)

\* The lists the model answers with in the handler: of every length up to
\* MaxPlan, the lists in which the two objects take turns
PlanLists ==
    {l \in SeqsUpTo({OA, OB}, MaxPlan) : \A i \in 1..(Len(l) - 1) : l[i] # l[i + 1]}

\* Texts the model answers with: a bare array, an array in a fenced block
\* with a language tag, and texts that hold no array of commands.
ModelTexts ==
    {RenderArray(l) : l \in PlanLists}
    \cup {<<FENCE, PX, NL>> \o RenderArray(l) \o <<NL, FENCE>> :
            l \in {m \in PlanLists : Len(m) <= 1}}
    \cup {<<>>, <<PX>>, <<LB, ON, RB>>, <<RB, PX, LB>>}

Exchanges ==
    {Exchange(FALSE, 0, <<>>, FALSE, "absent", <<>>)}
    \cup {Exchange(TRUE, st, <<PX>>, FALSE, "absent", <<>>) : st \in {404, 500}}
    \cup {Exchange(TRUE, 301, <<>>, FALSE, "absent", <<>>)}
    \cup {Exchange(TRUE, 200, <<>>, FALSE, "absent", <<>>)}
    \cup {Exchange(TRUE, 200, <<>>, TRUE, k, <<>>) : k \in {"absent", "nonstring"}}
    \cup {Exchange(TRUE, 200, <<>>, TRUE, "string", t) : t \in ModelTexts}

ExitCodes == {0, 1, 2}
Signals == {9}
WaitStatuses == {ExitedWith(c) : c \in ExitCodes} \cup {KilledBy(g) : g \in Signals}
OutputPairs == {<<<<"o", "k">>, <<>>>>, <<<<>>, <<"U+00E9">>>>}

\* n times the character c
Repeat(c, n) == [k \in 1..n |-> c]

\* An output of 167 three-byte characters: 501 bytes
LongOutput == Repeat("U+4E2D", 167)

Outcomes ==
    {[kind |-> "waited", raw |-> r, stdout |-> p[1], stderr |-> p[2]] :
        r \in WaitStatuses, p \in OutputPairs}
    \cup {[kind |-> "waited", raw |-> ExitedWith(1), stdout |-> LongOutput,
            stderr |-> <<>>]}
    \cup {[kind |-> k, raw |-> 0, stdout |-> <<>>, stderr |-> <<>>] :
            k \in {"timeout", "io"}}

\* Texts given to the extractor alone: every text of at most MaxTextLen
\* pieces, and fenced blocks of an array between two stretches of prose.
Prose == SeqsUpTo(ProseAlphabet, MaxProse)
FenceOpenings == {<<>>, <<NL>>, <<PX, NL>>}
FencedArrays == {<<LB, RB>>, <<LB, OA, RB>>, <<LB, OB, CM, OA, RB>>}
FencedTexts ==
    {pre \o <<FENCE>> \o open \o arr \o <<FENCE>> \o post :
        pre \in Prose, open \in FenceOpenings, arr \in FencedArrays,
        post \in Prose}
ExtractInputs == SeqsUpTo(Alphabet, MaxTextLen) \cup FencedTexts

\* ------------------------------------------------------------------------
\* State
\* ------------------------------------------------------------------------
VARIABLES
    allowed_chats,   \* config.telegram.allowed_chat_ids
    echo_result,     \* config.executor.echo_result
    timeout_secs,    \* config.executor.timeout_secs
    pc,              \* where the call of handle_message followed in full is
    msg,             \* the inbound message: chat_id and optional text
    sends,           \* send_message calls made for it, in order
    delivery,        \* whether each of them was delivered
    exchange,        \* the HTTP exchanges of LlmClient::chat
    resp,            \* LlmClient::chat: status of the response whose body is awaited
    llm_result,      \* what llm.chat returned
    parse_runs,      \* calls of parse_commands
    commands,        \* the extracted command list
    next_cmd,        \* run_commands: position of the loop
    halted,          \* run_commands: the loop was left by break
    results,         \* run_commands: the results vector
    spawned,         \* positions for which the Runner was invoked, in order
    running,         \* the Runner invocation in flight
    outcomes,        \* what the operating system answered to each invocation
    child,           \* the child process of the invocation in flight
    orphans,         \* children still running after their run_command returned
    returned,        \* what run_commands returned to the handler
    other,           \* another call of handle_message in flight
    raw,             \* extractor alone: the raw text
    candidate,       \* extractor alone: result of extract_json_array
    parsed,          \* extractor alone: result of parse_commands
    ex_pc            \* extractor alone: "off", "input", "parsed", "panicked"

config_vars == <<allowed_chats, echo_result, timeout_secs>>
exec_vars == <<next_cmd, halted, results, spawned, running, outcomes, child,
              orphans, returned>>
llm_vars == <<exchange, resp, llm_result, parse_runs, commands>>
send_vars == <<sends, delivery>>
extract_vars == <<raw, candidate, parsed, ex_pc>>
handler_vars == <<pc, msg, send_vars, llm_vars, exec_vars, other>>
vars == <<config_vars, handler_vars, extract_vars>>

NoMsg == [chat_id |-> 0, text |-> None]

\* No other call of handle_message is in flight
NoOther == "none"

HandlerIdle ==
    /\ pc = "idle"
    /\ msg = NoMsg
    /\ sends = <<>>
    /\ delivery = <<>>
    /\ exchange = <<>>
    /\ resp = None
    /\ llm_result = None
    /\ parse_runs = 0
    /\ commands = <<>>
    /\ next_cmd = 1
    /\ halted = FALSE
    /\ results = <<>>
    /\ spawned = <<>>
    /\ running = None
    /\ outcomes = <<>>
    /\ child = "none"
    /\ orphans = {}
    /\ returned = None
    /\ other = NoOther

\* bot.rs run: the configuration is read once, before any message
Init ==
    /\ allowed_chats \in AllowLists
    /\ echo_result \in BOOLEAN
    /\ timeout_secs = default_timeout
    /\ HandlerIdle
    /\ raw = <<>>
    /\ candidate = [panic |-> FALSE, val |-> <<>>]
    /\ parsed = [panic |-> FALSE, cmds |-> <<>>]
    /\ ex_pc = "off"

\* ------------------------------------------------------------------------
\* bot.rs: handle_message
\* ------------------------------------------------------------------------
\* bot.send_message(chat_id, text).await.ok(): the outcome d of the
\* delivery is dropped.
send_message(text, d) ==
    /\ sends' = Append(sends, [chat_id |-> msg.chat_id, text |-> text])
    /\ delivery' = Append(delivery, d)

\* The dispatcher hands an update to handle_message (bot.rs 170-194), and
\* nothing in bot.rs keeps two calls apart: they share the configuration,
\* the clients and the operating system, and each has its own message,
\* sends, gateway call and run_commands.  One call is followed in full (pc
\* and the variables of the handler); one more call in flight is followed
\* by its place in handle_message alone (other).  A call that ended, by a
\* return or by a panic of its task, is followed no further: the next call
\* takes its place, and the children it left running are kept as children
\* of position 0.
Receive ==
    \/ /\ pc \in {"idle", "done", "panicked"}
       /\ \E c \in ChatIds, t \in UserTexts :
            msg' = [chat_id |-> c, text |-> t]
       /\ pc' = "auth"
       /\ sends' = <<>>
       /\ delivery' = <<>>
       /\ exchange' = <<>>
       /\ resp' = None
       /\ llm_result' = None
       /\ parse_runs' = 0
       /\ commands' = <<>>
       /\ next_cmd' = 1
       /\ halted' = FALSE
       /\ results' = <<>>
       /\ spawned' = <<>>
       /\ running' = None
       /\ outcomes' = <<>>
       /\ child' = "none"
       /\ orphans' = {[pos |-> 0, behaviour |-> c.behaviour] : c \in orphans}
       /\ returned' = None
       /\ UNCHANGED <<config_vars, extract_vars, other>>
    \/ /\ other = NoOther
       /\ other' = "ack"
       /\ UNCHANGED <<pc, msg, send_vars, llm_vars, exec_vars, config_vars,
                      extract_vars>>

\* Vec::contains
contains(v, x) == \E i \in 1..Len(v) : v[i] = x

\* A variant of unauthorized that forgets that an empty list allows all
unauthorized_empty_rejects(allowed, chat_id) == ~contains(allowed, chat_id)

\* The condition of bot.rs 98
unauthorized(allowed, chat_id) == allowed # <<>> /\ ~contains(allowed, chat_id)

\* bot.rs 98-102
AuthCheck ==
    /\ pc = "auth"
    /\ pc' = IF unauthorized(allowed_chats, msg.chat_id) THEN "done" ELSE "content"
    /\ UNCHANGED <<msg, send_vars, llm_vars, exec_vars, config_vars, extract_vars, other>>

\* bot.rs 104-111
ContentCheck ==
    /\ pc = "content"
    /\ pc' = IF IsSome(msg.text) THEN "ack" ELSE "done"
    /\ UNCHANGED <<msg, send_vars, llm_vars, exec_vars, config_vars, extract_vars, other>>

\* bot.rs 116-118
Acknowledge ==
    /\ pc = "ack"
    /\ \E d \in BOOLEAN : send_message(<<ANALYZING>>, d)
    /\ pc' = "query"
    /\ UNCHANGED <<msg, llm_vars, exec_vars, config_vars, extract_vars, other>>

\* The response heads of the model: the request failed, or a status came
Heads == {[sent |-> x.sent, status |-> x.status] : x \in Exchanges}

\* The exchanges that begin with the head h
Bodies(h) == {x \in Exchanges : x.sent = h.sent /\ x.status = h.status}

\* What handle_message does with what llm.chat returned (bot.rs 120-128):
\* on Err the error notice is next, on Ok parse_commands runs
ChatReturns(x) ==
    LET r == chat(x)
        p == parse_commands(r.val)
    IN  /\ exchange' = Append(exchange, x)
        /\ llm_result' = Some(r)
        /\ resp' = None
        /\ IF ~r.ok
           THEN /\ pc' = "llm_err"
                /\ UNCHANGED <<parse_runs, commands>>
           ELSE /\ parse_runs' = parse_runs + 1
                /\ pc' = IF p.panic THEN "panicked" ELSE "extracted"
                /\ commands' = p.cmds

\* bot.rs 120 -> llm_client.rs 60-70: the first await of llm.chat ends.
\* The request failed and chat returns the error, or the head of the
\* response is there and its status is read
QueryModel ==
    /\ pc = "query"
    /\ \E h \in Heads :
         IF ~h.sent
         THEN \E x \in Bodies(h) : ChatReturns(x)
         ELSE /\ resp' = Some(h.status)
              /\ pc' = "body"
              /\ UNCHANGED <<exchange, llm_result, parse_runs, commands>>
    /\ UNCHANGED <<msg, send_vars, exec_vars, config_vars, extract_vars, other>>

\* llm_client.rs 71-85 -> bot.rs 120-128: the second await of llm.chat
\* ends, resp.text() for a status that is no success and resp.json() for
\* one that is, and chat returns
ReadBody ==
    /\ pc = "body"
    /\ \E x \in Bodies([sent |-> TRUE, status |-> Unwrap(resp)]) : ChatReturns(x)
    /\ UNCHANGED <<msg, send_vars, exec_vars, config_vars, extract_vars, other>>

\* A variant of SendErrorNotice without the return after the notice
SendErrorNotice_no_return ==
    /\ pc = "llm_err"
    /\ \E d \in BOOLEAN :
         send_message(<<LLM_FAILED>> \o Unwrap(llm_result).val, d)
    /\ pc' = "extracted"
    /\ UNCHANGED <<msg, llm_vars, exec_vars, config_vars, extract_vars, other>>

\* bot.rs 124-127
SendErrorNotice ==
    /\ pc = "llm_err"
    /\ \E d \in BOOLEAN :
         send_message(<<LLM_FAILED>> \o Unwrap(llm_result).val, d)
    /\ pc' = "done"
    /\ UNCHANGED <<msg, llm_vars, exec_vars, config_vars, extract_vars, other>>

\* bot.rs 131-136
SendNothingToExecute ==
    /\ pc = "extracted"
    /\ commands = <<>>
    /\ \E d \in BOOLEAN : send_message(<<NOTHING>>, d)
    /\ pc' = "done"
    /\ UNCHANGED <<msg, llm_vars, exec_vars, config_vars, extract_vars, other>>

\* A variant of AnnouncePlan that returns when the plan is not delivered
AnnouncePlan_stops_undelivered ==
    /\ pc = "extracted"
    /\ commands # <<>>
    /\ \E d \in BOOLEAN :
         /\ send_message(plan_text(commands), d)
         /\ pc' = IF d THEN "exec" ELSE "done"
    /\ UNCHANGED <<msg, llm_vars, exec_vars, config_vars, extract_vars, other>>

\* bot.rs 138-146, then the call of run_commands (executor.rs 77)
AnnouncePlan ==
    /\ pc = "extracted"
    /\ commands # <<>>
    /\ \E d \in BOOLEAN : send_message(plan_text(commands), d)
    /\ pc' = "exec"
    /\ UNCHANGED <<msg, llm_vars, exec_vars, config_vars, extract_vars, other>>

\* What `sh -c cmd` does once run_command asks for it: the spawn fails
\* ("nospawn"), the process ends by itself at some time ("exits"), or it
\* never does ("hangs").
ChildBehaviours == {"nospawn", "exits", "hangs"}

\* A variant of possible_outcomes for a wait that no timeout bounds
possible_outcomes_unbounded_wait(behaviour) ==
    IF behaviour = "nospawn" THEN {o \in Outcomes : o.kind = "io"}
    ELSE IF behaviour = "exits" THEN {o \in Outcomes : o.kind \in {"waited", "io"}}
    ELSE {}

\* executor.rs 46-56: what tokio::time::timeout(.., output()) can answer.
\* A process that never ends can only be answered by the timeout.
possible_outcomes(behaviour) ==
    IF behaviour = "nospawn" THEN {o \in Outcomes : o.kind = "io"}
    ELSE IF behaviour = "exits" THEN Outcomes
    ELSE {o \in Outcomes : o.kind = "timeout"}

\* A variant of RunnerStart that does not await the invocation in flight
RunnerStart_no_await ==
    /\ pc \in {"exec", "runner"}
    /\ ~halted
    /\ Len(spawned) < Len(commands)
    /\ spawned' = Append(spawned, Len(spawned) + 1)
    /\ running' = Some(Len(spawned) + 1)
    /\ \E b \in ChildBehaviours : child' = b
    /\ pc' = "runner"
    /\ UNCHANGED <<msg, send_vars, llm_vars, next_cmd, halted, results,
                   outcomes, orphans, returned, config_vars, extract_vars, other>>

\* executor.rs 78-80: the loop takes the next task and invokes the Runner
RunnerStart ==
    /\ pc = "exec"
    /\ ~halted
    /\ next_cmd <= Len(commands)
    /\ spawned' = Append(spawned, next_cmd)
    /\ running' = Some(next_cmd)
    /\ \E b \in ChildBehaviours : child' = b
    /\ pc' = "runner"
    /\ UNCHANGED <<msg, send_vars, llm_vars, next_cmd, halted, results,
                   outcomes, orphans, returned, config_vars, extract_vars, other>>

\* A variant of match_arm that goes on after a command that exited non-zero
match_arm_no_break(task, r) ==
    IF r.ok
    THEN [push |-> r.val, brk |-> FALSE]
    ELSE [push |-> SynthesizedResult(task, r.err), brk |-> TRUE]

\* executor.rs 80-100: the match on what run_command returned: the result
\* pushed, and whether the loop is left by break
match_arm(task, r) ==
    IF r.ok
    THEN [push |-> r.val, brk |-> ~r.val.success]
    ELSE [push |-> SynthesizedResult(task, r.err), brk |-> TRUE]

\* executor.rs 46-72 and 80-100: run_command returns, the match arm runs
\* The timeout drops the future of output() (executor.rs 46-55); the
\* Command is built without kill_on_drop (executor.rs 48-52), so the child
\* it spawned goes on running.
RunnerReturn ==
    /\ pc = "runner"
    /\ \E o \in possible_outcomes(child) :
         LET task == commands[next_cmd]
             m == match_arm(task, run_command(task.command, o, timeout_secs))
         IN  /\ outcomes' = Append(outcomes, o)
             /\ results' = Append(results, m.push)
             /\ halted' = m.brk
             /\ next_cmd' = IF m.brk THEN next_cmd ELSE next_cmd + 1
             /\ orphans' = IF o.kind = "timeout"
                           THEN orphans \cup {[pos |-> next_cmd, behaviour |-> child]}
                           ELSE orphans
    /\ child' = "none"
    /\ running' = None
    /\ pc' = "exec"
    /\ UNCHANGED <<msg, send_vars, llm_vars, spawned, returned, config_vars,
                   extract_vars, other>>

\* A variant of RunCommandsReturn whose loop ends one task early
RunCommandsReturn_one_early ==
    /\ pc = "exec"
    /\ halted \/ next_cmd >= Len(commands)
    /\ returned' = Some(results)
    /\ pc' = "ran"
    /\ UNCHANGED <<msg, send_vars, llm_vars, next_cmd, halted, results,
                   spawned, running, outcomes, child, orphans, config_vars,
                   extract_vars, other>>

\* executor.rs 102: the loop is over, the vector is returned (bot.rs 148)
RunCommandsReturn ==
    /\ pc = "exec"
    /\ halted \/ next_cmd > Len(commands)
    /\ returned' = Some(results)
    /\ pc' = "ran"
    /\ UNCHANGED <<msg, send_vars, llm_vars, next_cmd, halted, results,
                   spawned, running, outcomes, child, orphans, config_vars,
                   extract_vars, other>>

\* A child left running by a timeout ends by itself, if it ever does
\* (executor.rs 46-55: nothing of run_command ends it).
OrphanExits ==
    /\ \E c \in orphans :
         /\ c.behaviour = "exits"
         /\ orphans' = orphans \ {c}
    /\ UNCHANGED <<pc, msg, send_vars, llm_vars, next_cmd, halted, results,
                   spawned, running, outcomes, child, returned, config_vars,
                   extract_vars, other>>

\* bot.rs 150-155
Report ==
    /\ pc = "ran"
    /\ IF echo_result
       THEN LET report == format_results(commands, Unwrap(returned))
            IN  IF report.panic
                THEN /\ pc' = "panicked"
                     /\ UNCHANGED send_vars
                ELSE /\ \E d \in BOOLEAN : send_message(report.val, d)
                     /\ pc' = "done"
       ELSE /\ pc' = "done"
            /\ UNCHANGED send_vars
    /\ UNCHANGED <<msg, llm_vars, exec_vars, config_vars, extract_vars, other>>

\* The call that is not followed in full is followed from one await of
\* handle_message to the next.  What it was sent, what it was answered and
\* what it sends are not kept, so that every way on is open to it:
\*   "ack"     the analyzing notice is being sent (bot.rs 116-118); a call
\*             that returns before (98-111) was never in flight
\*   "query"   llm.chat awaits the head of the response (llm_client.rs 67)
\*   "body"    llm.chat awaits the body (llm_client.rs 72 or 76)
\*   "plan"    the plan is being sent (bot.rs 138-146)
\*   "runner"  run_command is awaited for a child (executor.rs 80)
\*   "last"    the last send of the call is awaited: the error notice
\*             (bot.rs 124-126), the nothing-to-execute notice (132-134) or
\*             the report (150-153)
\* A request that failed leads to the error notice; a body leads to the
\* error notice, to the nothing-to-execute notice, to the plan, or to the
\* panic of parse_commands, which ends the call; after a command the call
\* runs the next one or leaves run_commands, and then it sends the report
\* when echo_result is set, unless format_results panics.  A child that
\* outlives its timeout is left running (executor.rs 46-55).
\* What matters of the answers to a child of behaviour b: whether the
\* timeout elapsed, and whether the command succeeded
OtherAnswers(b) ==
    {[timeout |-> o.kind = "timeout",
      success |-> o.kind = "waited" /\ status_success(o.raw)] :
        o \in possible_outcomes(b)}

\* Where the call goes when run_commands has returned (bot.rs 148-155)
OtherAfterRun == IF echo_result THEN {"last", NoOther} ELSE {NoOther}

OtherStep ==
    /\ \/ /\ other = "ack"
          /\ other' = "query"
          /\ UNCHANGED orphans
       \/ /\ other = "query"
          /\ other' \in {"body", "last"}
          /\ UNCHANGED orphans
       \/ /\ other = "body"
          /\ other' \in {"last", "plan", NoOther}
          /\ UNCHANGED orphans
       \/ /\ other = "plan"
          /\ other' = "runner"
          /\ UNCHANGED orphans
       \/ /\ other = "runner"
          /\ \E b \in ChildBehaviours : \E a \in OtherAnswers(b) :
               /\ orphans' = IF a.timeout
                             THEN orphans \cup {[pos |-> 0, behaviour |-> b]}
                             ELSE orphans
               /\ other' \in IF a.success THEN {"runner"} \cup OtherAfterRun
                             ELSE OtherAfterRun
       \/ /\ other = "last"
          /\ other' = NoOther
          /\ UNCHANGED orphans
    /\ UNCHANGED <<pc, msg, send_vars, llm_vars, next_cmd, halted, results,
                   spawned, running, outcomes, child, returned, config_vars,
                   extract_vars>>

Next ==
    \/ Receive
    \/ OtherStep
    \/ AuthCheck
    \/ ContentCheck
    \/ Acknowledge
    \/ QueryModel
    \/ ReadBody
    \/ SendErrorNotice
    \/ SendNothingToExecute
    \/ AnnouncePlan
    \/ RunnerStart
    \/ RunnerReturn
    \/ RunCommandsReturn
    \/ OrphanExits
    \/ Report

Spec == Init /\ [][Next]_vars

\* The steps of the task that handles one message, after the Model Gateway
\* answered.  The runtime polls a task that can go on, the timer of
\* tokio::time::timeout fires (executor.rs 46-47), and a send returns with
\* Ok or Err; nothing bounds the gateway call (llm_client.rs 60-76), the
\* arrival of a message, or the life of a child left behind.
HandlerStep ==
    \/ SendErrorNotice
    \/ SendNothingToExecute
    \/ AnnouncePlan
    \/ RunnerStart
    \/ RunnerReturn
    \/ RunCommandsReturn
    \/ Report

\* One authorized text message, from the moment the Model Gateway is
\* called (bot.rs 120): the analyzing notice has been attempted.
InitPipeline ==
    /\ allowed_chats = <<1>>
    /\ echo_result \in BOOLEAN
    /\ timeout_secs = default_timeout
    /\ pc = "query"
    /\ msg = [chat_id |-> 1, text |-> Some(<<"h", "i">>)]
    /\ sends = <<[chat_id |-> 1, text |-> <<ANALYZING>>]>>
    /\ delivery = <<TRUE>>
    /\ exchange = <<>>
    /\ resp = None
    /\ llm_result = None
    /\ parse_runs = 0
    /\ commands = <<>>
    /\ next_cmd = 1
    /\ halted = FALSE
    /\ results = <<>>
    /\ spawned = <<>>
    /\ running = None
    /\ outcomes = <<>>
    /\ child = "none"
    /\ orphans = {}
    /\ returned = None
    /\ other = NoOther
    /\ raw = <<>>
    /\ candidate = [panic |-> FALSE, val |-> <<>>]
    /\ parsed = [panic |-> FALSE, cmds |-> <<>>]
    /\ ex_pc = "off"

NextPipeline ==
    \/ QueryModel
    \/ ReadBody
    \/ SendErrorNotice
    \/ SendNothingToExecute
    \/ AnnouncePlan
    \/ RunnerStart
    \/ RunnerReturn
    \/ RunCommandsReturn
    \/ OrphanExits
    \/ Report

SpecPipeline == InitPipeline /\ [][NextPipeline]_vars /\ WF_vars(HandlerStep)

\* ------------------------------------------------------------------------
\* The Task Executor alone: run_commands called with any command list
\* ------------------------------------------------------------------------
CommandLists == {from_str(RenderArray(l)).cmds : l \in ObjectLists}

InitExecutor ==
    /\ allowed_chats = <<>>
    /\ echo_result = TRUE
    /\ timeout_secs = default_timeout
    /\ pc = "exec"
    /\ msg = NoMsg
    /\ sends = <<>>
    /\ delivery = <<>>
    /\ exchange = <<>>
    /\ resp = None
    /\ llm_result = None
    /\ parse_runs = 0
    /\ commands \in CommandLists
    /\ next_cmd = 1
    /\ halted = FALSE
    /\ results = <<>>
    /\ spawned = <<>>
    /\ running = None
    /\ outcomes = <<>>
    /\ child = "none"
    /\ orphans = {}
    /\ returned = None
    /\ other = NoOther
    /\ raw = <<>>
    /\ candidate = [panic |-> FALSE, val |-> <<>>]
    /\ parsed = [panic |-> FALSE, cmds |-> <<>>]
    /\ ex_pc = "off"

NextExecutor ==
    \/ RunnerStart
    \/ RunnerReturn
    \/ RunCommandsReturn
    \/ OrphanExits

SpecExecutor == InitExecutor /\ [][NextExecutor]_vars

\* ------------------------------------------------------------------------
\* The report alone: the handler after run_commands returned the result of
\* one command whose output is near the limits of truncate
\* ------------------------------------------------------------------------
OutputChars == {"a", "U+00E9", "U+4E2D"}

\* Numbers of characters that put an output just under, at or over a limit
\* of limit bytes, for characters of 1, 2 and 3 bytes
LengthsNear(limit) ==
    {1, limit \div 3, limit \div 3 + 1, limit \div 2, limit \div 2 + 1,
     limit - 1, limit, limit + 1}

\* Up to MaxPad one-byte characters, then n times the character c
OutputsNear(limit) ==
    {Repeat("a", k) \o Repeat(c, n) :
        k \in 0..MaxPad, c \in OutputChars, n \in LengthsNear(limit)}

ReportOutcomes ==
    {[kind |-> "waited", raw |-> r, stdout |-> out, stderr |-> <<>>] :
        r \in {ExitedWith(0), ExitedWith(1)}, out \in OutputsNear(500)}
    \cup {[kind |-> "waited", raw |-> r, stdout |-> <<>>, stderr |-> e] :
        r \in {ExitedWith(0), ExitedWith(1)}, e \in OutputsNear(300)}

InitReport ==
    /\ allowed_chats = <<>>
    /\ echo_result = TRUE
    /\ timeout_secs = default_timeout
    /\ pc = "ran"
    /\ msg = [chat_id |-> 1, text |-> Some(<<"h", "i">>)]
    /\ commands = from_str(<<LB, OB, RB>>).cmds
    /\ sends = <<[chat_id |-> 1, text |-> <<ANALYZING>>],
                 [chat_id |-> 1, text |-> plan_text(commands)]>>
    /\ delivery = <<TRUE, TRUE>>
    /\ exchange = <<Exchange(TRUE, 200, <<>>, TRUE, "string", <<LB, OB, RB>>)>>
    /\ resp = None
    /\ llm_result = Some(chat(exchange[1]))
    /\ parse_runs = 1
    /\ \E o \in ReportOutcomes :
         LET task == commands[1]
             m == match_arm(task, run_command(task.command, o, timeout_secs))
         IN  /\ outcomes = <<o>>
             /\ results = <<m.push>>
             /\ halted = m.brk
             /\ next_cmd = IF m.brk THEN 1 ELSE 2
    /\ spawned = <<1>>
    /\ running = None
    /\ child = "none"
    /\ orphans = {}
    /\ returned = Some(results)
    /\ other = NoOther
    /\ raw = <<>>
    /\ candidate = [panic |-> FALSE, val |-> <<>>]
    /\ parsed = [panic |-> FALSE, cmds |-> <<>>]
    /\ ex_pc = "off"

NextReport == Report

SpecReport == InitReport /\ [][NextReport]_vars

\* ------------------------------------------------------------------------
\* The extractor alone, applied to every text of ExtractInputs
\* ------------------------------------------------------------------------
InitExtract ==
    /\ allowed_chats = <<>>
    /\ echo_result = TRUE
    /\ timeout_secs = default_timeout
    /\ HandlerIdle
    /\ raw \in ExtractInputs
    /\ candidate = [panic |-> FALSE, val |-> <<>>]
    /\ parsed = [panic |-> FALSE, cmds |-> <<>>]
    /\ ex_pc = "input"

ApplyParseCommands ==
    /\ ex_pc = "input"
    /\ candidate' = extract_json_array(raw)
    /\ parsed' = parse_commands(raw)
    /\ ex_pc' = IF parse_commands(raw).panic THEN "panicked" ELSE "parsed"
    /\ UNCHANGED <<raw, config_vars, handler_vars>>

NextExtract == ApplyParseCommands

SpecExtract == InitExtract /\ [][NextExtract]_vars

\* ========================================================================
\* Properties
\* ========================================================================
\* The Runner invocation of position i ended with exit status zero.
ExitedZero(i) == outcomes[i].kind = "waited" /\ outcomes[i].raw = ExitedWith(0)

\* The Runner itself failed for position i (timeout, spawn or I/O error).
RunnerFailed(i) == outcomes[i].kind \in {"timeout", "io"}

\* C1 -- Fail-stop: run_commands attempts the commands in list order and
\* stops at the first one that does not succeed; the results are a prefix
\* of the list, index-aligned with it, every result but possibly the last
\* has success = true, and nothing after the first failed command is
\* attempted.
C1_FailStop ==
    /\ spawned = [k \in 1..Len(spawned) |-> k]
    /\ Len(spawned) <= Len(commands)
    /\ Len(results) = Len(spawned) - (IF IsSome(running) THEN 1 ELSE 0)
    /\ Len(outcomes) = Len(results)
    /\ \A i \in 1..Len(results) :
         /\ results[i].command = commands[i].command
         /\ results[i].success <=> ExitedZero(i)
         /\ i < Len(results) => results[i].success
         /\ ~results[i].success => Len(spawned) = i
    /\ IsSome(returned) => Unwrap(returned) = results

C1_Witness ==
    /\ pc = "ran"
    /\ Len(commands) = 3
    /\ Len(Unwrap(returned)) = 2
    /\ Unwrap(returned)[1].success
    /\ ~Unwrap(returned)[2].success
    /\ spawned = <<1, 2>>

\* C2 -- The length of the sequence run_commands returns equals the number
\* of Runner invocations, is at most the input length, and is strictly less
\* than it exactly when a failure occurred at a command that is not the
\* last; an empty list returns an empty sequence with no Runner invocation.
C2_ReturnedLength ==
    pc = "ran" =>
        LET ret == Unwrap(returned)
            n == Len(ret)
        IN  /\ n = Len(spawned)
            /\ n <= Len(commands)
            /\ (n < Len(commands)) <=>
                 (\E i \in 1..n : i < Len(commands) /\ ~ret[i].success)
            /\ commands = <<>> => ret = <<>> /\ spawned = <<>>

C2_Witness ==
    /\ pc = "ran"
    /\ Len(commands) = 2
    /\ Len(Unwrap(returned)) = 1
    /\ ~Unwrap(returned)[1].success

\* C3 -- When the Runner itself fails for a command (timeout, spawn or I/O
\* error), run_commands appends a result with success = false, no exit
\* code, empty stdout and the error message as stderr, and stops; a command
\* that ran and exited non-zero carries an exit code, so the two differ.
C3_RunnerFailureResult ==
    \A i \in 1..Len(results) :
        /\ RunnerFailed(i) =>
             /\ results[i].command = commands[i].command
             /\ results[i].success = FALSE
             /\ results[i].exit_code = None
             /\ results[i].stdout = <<>>
             /\ results[i].stderr =
                  run_command(commands[i].command, outcomes[i], timeout_secs).err
             /\ results[i].stderr # <<>>
             /\ halted
             /\ i = Len(results)
             /\ Len(spawned) = i
        /\ (outcomes[i].kind = "waited" /\ outcomes[i].raw % 128 = 0
              /\ outcomes[i].raw # 0) =>
             /\ IsSome(results[i].exit_code)
             /\ Unwrap(results[i].exit_code) # 0

C3_Witness ==
    /\ pc = "ran"
    /\ Len(commands) = 3
    /\ Len(results) = 2
    /\ outcomes[2].kind = "timeout"
    /\ results[2].exit_code = None

\* C4 -- Every CommandResult, produced by run_command or synthesized by
\* run_commands, has success = true exactly when its exit code is present
\* and equal to 0.
C4_SuccessIffExitZero ==
    \A i \in 1..Len(results) :
        results[i].success <=> results[i].exit_code = Some(0)

C4_Witness ==
    \E i \in 1..Len(results) :
        /\ outcomes[i].kind = "waited"
        /\ outcomes[i].raw = KilledBy(9)
        /\ results[i].exit_code = None
        /\ ~results[i].success

\* The chat identifiers of the allow-list
AllowedSet == {allowed_chats[k] : k \in 1..Len(allowed_chats)}

AckSend == [chat_id |-> msg.chat_id, text |-> <<ANALYZING>>]
NothingSend == [chat_id |-> msg.chat_id, text |-> <<NOTHING>>]

\* C5 -- Authorization gate: a message whose chat identifier is not in a
\* non-empty allow-list causes no outbound message, no Model Gateway call
\* and no command execution; with an empty allow-list no chat identifier is
\* rejected (a text message always gets as far as the analyzing notice).
C5_AuthorizationGate ==
    /\ (pc # "idle" /\ AllowedSet # {} /\ msg.chat_id \notin AllowedSet) =>
         /\ pc \in {"auth", "done"}
         /\ sends = <<>>
         /\ exchange = <<>>
         /\ resp = None
         /\ parse_runs = 0
         /\ spawned = <<>>
    /\ (pc = "done" /\ AllowedSet = {} /\ IsSome(msg.text)) => sends # <<>>

C5_Witness ==
    /\ pc = "done"
    /\ allowed_chats = <<1>>
    /\ msg.chat_id = 2
    /\ IsSome(msg.text)
    /\ sends = <<>>
    /\ exchange = <<>>

\* Some stretch of the text is a JSON array of commands.
ContainsArray(text) ==
    \E i \in 1..Len(text) : \E j \in i..Len(text) :
        from_str(SubSeq(text, i, j)).ok

\* C6 -- The Command-List Extractor never fails or aborts its caller: for
\* every raw text, also one whose last ']' is before its first '[' or whose
\* opening fence is never closed, it returns a list, and the empty list
\* when the text contains no valid JSON array.
C6_ExtractorNeverFails ==
    ex_pc # "input" =>
        /\ ex_pc = "parsed"
        /\ ~parsed.panic
        /\ ~ContainsArray(raw) => parsed.cmds = <<>>

\* The fenced block of a text: what is between its first fence marker and
\* the next one.
HasFencedBlock(text) ==
    /\ IsSome(find(text, FENCE))
    /\ IsSome(find(Slice(text, Unwrap(find(text, FENCE)) + 1, Len(text)), FENCE))

FencedBlock(text) ==
    LET rest == Slice(text, Unwrap(find(text, FENCE)) + 1, Len(text))
    IN  Slice(rest, 0, Unwrap(find(rest, FENCE)))

\* The JSON array inside a block: the block itself, or what follows the
\* line of the opening fence (a language tag).
ArrayInside(block) ==
    IF from_str(block).ok \/ find(block, NL) = None
    THEN from_str(block)
    ELSE from_str(Slice(block, Unwrap(find(block, NL)) + 1, Len(block)))

\* C7 -- For every raw text containing a fenced block with a JSON array
\* inside, the extractor returns exactly the array parsed from that block,
\* whatever prose surrounds the block, also when the fences are opened and
\* closed on one line.
C7_FencedArrayReturned ==
    (ex_pc # "input" /\ HasFencedBlock(raw) /\ ArrayInside(FencedBlock(raw)).ok) =>
        /\ ~parsed.panic
        /\ parsed.cmds = ArrayInside(FencedBlock(raw)).cmds

\* The Model Gateway failed: a non-2xx status, or a 2xx response whose body
\* is not JSON or has no string at choices[0].message.content.
GatewayFailure(x) ==
    /\ x.sent
    /\ \/ x.status < 200
       \/ x.status > 299
       \/ ~x.json
       \/ x.content.kind # "string"

\* C8 -- A Model Gateway failure (non-2xx status or malformed response
\* body) is returned by LlmClient::chat as an error, so the handler ends
\* with the error notice and not with the nothing-to-execute notice.
C8_GatewayFailureIsError ==
    \A k \in 1..Len(exchange) :
        GatewayFailure(exchange[k]) =>
            /\ IsSome(llm_result) /\ ~Unwrap(llm_result).ok
            /\ pc = "done" => sends[Len(sends)].text[1] = LLM_FAILED

\* C9 -- When the Model Gateway call returns an error, the handler sends
\* exactly one error notice to that chat and stops: the extractor is not
\* run, no plan is announced, no command is executed, no report is sent.
C9_GatewayErrorStops ==
    (IsSome(llm_result) /\ ~Unwrap(llm_result).ok) =>
        /\ pc \in {"llm_err", "done"}
        /\ Len(exchange) = 1
        /\ parse_runs = 0
        /\ commands = <<>>
        /\ spawned = <<>>
        /\ results = <<>>
        /\ returned = None
        /\ pc = "llm_err" => sends = <<AckSend>>
        /\ pc = "done" =>
             sends = <<AckSend,
                       [chat_id |-> msg.chat_id,
                        text |-> <<LLM_FAILED>> \o Unwrap(llm_result).val]>>

C9_Witness ==
    /\ pc = "done"
    /\ IsSome(llm_result)
    /\ ~Unwrap(llm_result).ok
    /\ exchange[1].status = 500
    /\ Len(sends) = 2
    /\ sends[2].text[1] = LLM_FAILED

\* C10 -- When the extracted command list is empty (the model returned an
\* empty array or undecodable text), the handler sends the
\* nothing-to-execute notice and stops: no plan is sent, the Task Executor
\* is never invoked and no report is sent.  The extractor has been run on
\* the model's answer and no command has come of it.
C10_EmptyListStops ==
    (parse_runs = 1 /\ commands = <<>>) =>
        /\ pc \in {"extracted", "done"}
        /\ spawned = <<>>
        /\ results = <<>>
        /\ returned = None
        /\ pc = "extracted" => sends = <<AckSend>>
        /\ pc = "done" => sends = <<AckSend, NothingSend>>

\* C11 -- When a command exceeds its timeout, the child process spawned for
\* it is terminated: once run_command has returned the timeout error, no
\* process spawned by that call is still running.
C11_NoOrphanAfterTimeout ==
    \A i \in 1..Len(outcomes) :
        outcomes[i].kind = "timeout" => \A c \in orphans : c.pos # i

\* Runner invocations started and not yet returned
InFlight == Len(spawned) - Len(results)

\* C12 -- Within one run_commands call the commands run one at a time: the
\* Runner for the next command is started only after the Runner call of the
\* one before has returned, at most one invocation is in flight in any
\* state, and the result list is returned only after every attempted
\* command has completed or failed.
C12_OneAtATime ==
    /\ InFlight \in {0, 1}
    /\ InFlight = 1 <=> pc = "runner"
    /\ InFlight = 1 <=> IsSome(running)
    /\ IsSome(running) =>
         /\ Unwrap(running) = Len(spawned)
         /\ Unwrap(running) = Len(results) + 1
         /\ orphans = {}
    /\ IsSome(returned) => InFlight = 0 /\ Unwrap(returned) = results

C12_Witness ==
    /\ pc = "runner"
    /\ spawned = <<1, 2>>
    /\ Len(results) = 1
    /\ running = Some(2)

\* Where the handler goes on after the send of a message, by the message
StepAfterSend(text) ==
    IF text[1] = ANALYZING THEN "query"
    ELSE IF text[1] = PLAN_HEADER THEN "exec"
    ELSE "done"

\* C13 -- Outbound sends are best-effort: whichever sends fail to deliver,
\* the pipeline takes the same gateway call, extraction and command
\* executions as when all are delivered; a send, delivered or not, is
\* followed by the same next step and changes nothing but the record of
\* sends, and a plan that was not delivered does not prevent execution.
C13_SendsBestEffort ==
    /\ [](/\ Len(delivery) = Len(sends)
          /\ (pc = "done" /\ sends # <<>>) => Len(exchange) = 1
          /\ (pc = "done" /\ commands # <<>>) =>
               /\ IsSome(returned)
               /\ Len(spawned) >= 1
               /\ Len(results) = Len(commands) \/ ~results[Len(results)].success)
    /\ [][(sends' # sends /\ sends' # <<>>) =>
            /\ Len(sends') = Len(sends) + 1
            /\ pc' = StepAfterSend(sends'[Len(sends')].text)
            /\ UNCHANGED <<msg, llm_vars, exec_vars, config_vars>>]_vars

C13_Witness ==
    /\ pc = "done"
    /\ delivery = <<FALSE, FALSE, FALSE>>
    /\ Len(results) = 2
    /\ sends[2].text[1] = PLAN_HEADER
    /\ sends[3].text[1] = REPORT_HEADER

\* C14 -- No per-message failure is fatal: for any message content, model
\* response text and command outcomes (multi-byte output longer than the
\* truncation limits, model text with mis-ordered brackets), the pipeline
\* of the message reaches a normal terminal state without aborting its
\* task.
C14_NoAbort == pc # "panicked"

\* An output cut by characters: verbatim up to limit characters, else its
\* first limit characters and the truncation marker.  (An output of the
\* model is a sequence of one-character pieces.)
CutAtChars(out, limit) ==
    IF Len(out) <= limit THEN out
    ELSE SubSeq(out, 1, limit) \o <<TRUNC_MARK>>

\* The entry of the report for result r of command c, cut by characters
EntryCutAtChars(c, r) ==
    <<IF r.success THEN ICON_OK ELSE ICON_FAIL, " ">> \o c.description
    \o <<"\n", CMD_LABEL>> \o r.command \o <<"\n">>
    \o (IF r.stdout # <<>>
        THEN <<OUT_LABEL>> \o CutAtChars(r.stdout, 500) \o <<"\n">> ELSE <<>>)
    \o (IF r.stderr # <<>>
        THEN <<ERR_LABEL>> \o CutAtChars(r.stderr, 300) \o <<"\n">> ELSE <<>>)
    \o <<"\n">>

\* C15 -- Report truncation: a stdout longer than 500 characters appears in
\* the report as exactly its first 500 characters and the truncation
\* marker, a stderr longer than 300 characters as its first 300 characters
\* and the marker, and any shorter one verbatim; for all strings, also of
\* multi-byte characters.
C15_ReportTruncation ==
    (pc # "ran" /\ Len(Unwrap(returned)) = 1) =>
        /\ pc = "done"
        /\ Len(sends) = 3
        /\ sends[3].text =
             <<REPORT_HEADER>> \o EntryCutAtChars(commands[1], Unwrap(returned)[1])

PlanSend ==
    Len(sends) >= 2 /\ sends[2].text = plan_text(commands)

ReportSend ==
    Len(sends) = 3 /\ sends[3].text[1] = REPORT_HEADER

\* C16 -- Handler step ordering for a non-empty extracted list: the plan
\* (one message, the commands numbered from 1 in list order) is attempted
\* before the first command is executed, the report is attempted only after
\* run_commands has returned, and once the handler has stopped the report
\* has been sent if and only if echo_result is enabled.
C16_StepOrdering ==
    /\ spawned # <<>> => commands # <<>> /\ PlanSend
    /\ \A i \in 1..Len(sends) :
           sends[i].text[1] = REPORT_HEADER => i = 3 /\ PlanSend /\ IsSome(returned)
    /\ (pc \in {"done", "panicked"} /\ IsSome(returned)) =>
           (ReportSend <=> echo_result)

\* Positions (from 1) of piece pat in text after position i
After(text, pat, i) == {k \in (i + 1)..Len(text) : text[k] = pat}

Min(S) == CHOOSE x \in S : \A y \in S : x <= y

Max(S) == CHOOSE x \in S : \A y \in S : x >= y

\* The end of the line of the fence at position f: the first newline after
\* it, or the fence itself when nothing but its own line follows
LineEnd(text, f) ==
    IF After(text, NL, f) # {} THEN Min(After(text, NL, f)) ELSE f

\* The three tiers in the words of the claim
HasBlockAfterLineEnd(text) ==
    /\ After(text, FENCE, 0) # {}
    /\ After(text, FENCE, LineEnd(text, Min(After(text, FENCE, 0)))) # {}

BlockAfterLineEnd(text) ==
    LET e == LineEnd(text, Min(After(text, FENCE, 0)))
    IN  trim(SubSeq(text, e + 1, Min(After(text, FENCE, e)) - 1))

HasBrackets(text) == After(text, LB, 0) # {} /\ After(text, RB, 0) # {}

BracketSpan(text) ==
    SubSeq(text, Min(After(text, LB, 0)), Max(After(text, RB, 0)))

ExpectedCandidate(text) ==
    IF HasBlockAfterLineEnd(text) THEN BlockAfterLineEnd(text)
    ELSE IF HasBrackets(text) THEN BracketSpan(text)
    ELSE trim(text)

\* C17 -- Three-tier fallback of extract_json_array: the candidate is the
\* trimmed text between the first fence's line end and the next fence when
\* both exist; otherwise the substring from the first '[' through the last
\* ']' when both exist; otherwise the whole text trimmed.  For a fence-free
\* text whose first-'['-to-last-']' substring is a valid JSON array, the
\* extractor returns that array.
C17_ThreeTierFallback ==
    ex_pc # "input" =>
        /\ ~candidate.panic
        /\ candidate.val = ExpectedCandidate(raw)
        /\ (/\ After(raw, FENCE, 0) = {}
            /\ HasBrackets(raw)
            /\ from_str(BracketSpan(raw)).ok) =>
               /\ ~parsed.panic
               /\ parsed.cmds = from_str(BracketSpan(raw)).cmds

AfterGateway == pc \in {"llm_err", "extracted", "exec", "runner", "ran"}

Terminal == pc \in {"done", "panicked"}

\* C18 -- Termination: run_commands, once called, eventually returns, also
\* when a command's process never exits, because the timeout turns it into
\* a failed result that halts the plan; so the handling of an authorized
\* text message reaches a terminal state once the Model Gateway call has
\* returned.
C18_Termination ==
    /\ AfterGateway ~> Terminal
    /\ [](/\ pc \in {"exec", "runner", "ran"} => commands # <<>>
          /\ (Terminal /\ commands # <<>>) =>
                 IsSome(returned) /\ Unwrap(returned) = results
          /\ \A i \in 1..Len(outcomes) :
                 outcomes[i].kind = "timeout" =>
                     /\ i = Len(outcomes)
                     /\ ~results[i].success
                     /\ halted)

C18_Witness ==
    /\ Terminal
    /\ IsSome(returned)
    /\ Len(commands) > Len(results)
    /\ outcomes[Len(outcomes)].kind = "timeout"
    /\ \E c \in orphans : c.behaviour = "hangs"

\* The kinds of the messages sent so far, in order
SendKinds ==
    [i \in 1..Len(sends) |->
        IF sends[i].text = <<ANALYZING>> THEN "analyzing"
        ELSE IF sends[i].text[1] = LLM_FAILED THEN "error notice"
        ELSE IF sends[i].text = <<NOTHING>> THEN "nothing-to-execute"
        ELSE IF sends[i].text[1] = PLAN_HEADER THEN "plan"
        ELSE IF sends[i].text[1] = REPORT_HEADER THEN "report"
        ELSE "other"]

AllowedSendSequences ==
    {<<>>,
     <<"analyzing", "error notice">>,
     <<"analyzing", "nothing-to-execute">>,
     <<"analyzing", "plan">>,
     <<"analyzing", "plan", "report">>}

\* C19 -- For every inbound message the sequence of send attempts is, once
\* its handling has ended, one of: none (exactly when the chat is
\* unauthorized or the message has no text); [analyzing, error notice];
\* [analyzing, nothing-to-execute]; [analyzing, plan]; [analyzing, plan,
\* report].  A report never comes without a plan before it, at most three
\* messages are sent, and the Model Gateway is called at most once and only
\* after the analyzing notice was attempted.
C19_SendSequences ==
    /\ Terminal =>
           /\ SendKinds \in AllowedSendSequences
           /\ SendKinds = <<>> <=>
                  (unauthorized(allowed_chats, msg.chat_id) \/ msg.text = None)
    /\ Len(sends) <= 3
    /\ \A i \in 1..Len(sends) :
           SendKinds[i] = "report" => i > 1 /\ SendKinds[i - 1] = "plan"
    /\ Len(exchange) <= 1
    /\ exchange # <<>> => sends # <<>> /\ SendKinds[1] = "analyzing"

====
